---- MODULE Spec2Model ----
(***************************************************************************)
(* Verification model of the loyverse-mcp-server RAG core:                 *)
(*   - chunkText            (src/src/lib/rag.ts)                           *)
(*   - the rich-document store: ingestDocument, deleteDocument,            *)
(*     hybridSearch, getRAGStats (src/src/lib/rag.ts)                      *)
(*   - the store-connection accessors getClient (rag.ts) and               *)
(*     connectToDatabase (mongodb.ts)                                      *)
(*   - the CSV collection: upload POST, deleteByFilename, insertChunks,    *)
(*     CSV hybridSearch and listDocuments, detectCsvType, and the CSV      *)
(*     reciprocalRankFusion beside the rich-document one                   *)
(*   - loyverseGetAll (src/src/lib/rag.ts)                                 *)
(* Strings are sequences of one-character strings.                         *)
(***************************************************************************)
EXTENDS Integers, Sequences, FiniteSets, TLC

VARIABLES
    \* ---- chunkText (one call) ----
    text, maxChars, overlap,      \* the arguments
    paragraphs, paraIdx,          \* the filtered split and the for-loop position
    currentChunk, chunkIndex,     \* the running buffer and the next index
    chunks,                       \* the result array
    cpc,                          \* position in chunkText
    \* ---- rich-document store (database loyverse_rag) ----
    chunksColl,                   \* the "chunks" collection
    docsColl,                     \* the "documents" collection
    nextDocId, nextChunkId,       \* fresh documentId / store-assigned _id
    op,                           \* the ingestDocument / deleteDocument call in flight
    search,                       \* the hybridSearch call in flight
    \* ---- store connections ----
    client, isConnecting,         \* rag.ts module state of getClient
    cachedClient,                 \* mongodb.ts module state (cachedDb goes with it)
    mongoClients,                 \* every MongoClient constructed, in order
    callers,                      \* the accessor calls in flight
    \* ---- CSV collection (database loyverse, collection documents) ----
    csvColl,                      \* the CSV row chunks
    uploads,                      \* the upload requests in flight
    nextCsvId, now,               \* store-assigned _id / the clock
    lastCmd,                      \* the last command issued by the upload route,
                                  \* the CSV search library or getRAGStats
    \* ---- embedding batchers ----
    emb,                          \* the batch embedding call in flight
    \* ---- rank fusion ----
    fuse,                         \* hybridSearch from its two result lists on
    \* ---- CSV type detection ----
    detect,                       \* detectCsvType applied to a header row
    \* ---- Loyverse paging ----
    pager                         \* the loyverseGetAll call in flight

chunkVars == <<text, maxChars, overlap, paragraphs, paraIdx, currentChunk,
               chunkIndex, chunks, cpc>>
storeVars == <<chunksColl, docsColl, nextDocId, nextChunkId, op, search>>

connVars == <<client, isConnecting, cachedClient, mongoClients, callers>>
csvVars == <<csvColl, uploads, nextCsvId, now, lastCmd>>

embVars == <<emb>>
fuseVars == <<fuse>>
detectVars == <<detect>>
pagerVars == <<pager>>

vars == <<chunkVars, storeVars, connVars, csvVars, embVars, fuseVars,
          detectVars, pagerVars>>

nonChunkVars == <<storeVars, connVars, csvVars, embVars, fuseVars, detectVars, pagerVars>>
nonStoreVars == <<chunkVars, connVars, csvVars, embVars, fuseVars, detectVars, pagerVars>>
nonConnVars == <<chunkVars, storeVars, csvVars, embVars, fuseVars, detectVars, pagerVars>>
nonCsvVars == <<chunkVars, storeVars, connVars, embVars, fuseVars, detectVars, pagerVars>>
nonEmbVars == <<chunkVars, storeVars, connVars, csvVars, fuseVars, detectVars, pagerVars>>
nonFuseVars == <<chunkVars, storeVars, connVars, csvVars, embVars, detectVars, pagerVars>>
nonDetectVars == <<chunkVars, storeVars, connVars, csvVars, embVars, fuseVars, pagerVars>>
nonPagerVars == <<chunkVars, storeVars, connVars, csvVars, embVars, fuseVars, detectVars>>

\* ------------------------------------------------------------------------
\* Bounds
\* ------------------------------------------------------------------------
MaxTextLen == 5          \* longest input text of chunkText
MaxChunks == 7           \* chunks a (non-terminating) chunkText call may emit
MaxDocs == 2             \* ingestDocument calls (document ids generated)
MaxChunksPerDoc == 2     \* chunks chunkText yields for one ingested document
MaxSearchChunks == 2     \* chunk records ever written, where searches are modelled
MaxLimit == 1            \* largest `limit` argument of hybridSearch
NumCallers == 2          \* concurrent callers of the connection accessors
MaxClients == 2          \* MongoClient objects constructed
NumUploads == 2          \* upload requests received
MaxRows == 1             \* data rows of an uploaded CSV file
MaxTexts == 3            \* texts handed to an embedding batcher
MaxFuseChunks == 3       \* stored chunks the two result lists draw from
MaxFuseLimit == 2        \* largest `limit` when fusing
MaxItems == 3            \* largest maxItems argument of loyverseGetAll
MaxPageLen == 2          \* most items in one provider page

\* ------------------------------------------------------------------------
\* String helpers (JavaScript semantics)
\* ------------------------------------------------------------------------
Min(a, b) == IF a < b THEN a ELSE b
Max(a, b) == IF a > b THEN a ELSE b

SetMax(S) == CHOOSE x \in S : \A y \in S : y <= x

Alphabet == {"a", "b", " ", "\n"}
Ws == {" ", "\n"}
NL2 == <<"\n", "\n">>

RECURSIVE TrimStart(_)
TrimStart(s) ==
    IF s # <<>> /\ Head(s) \in Ws THEN TrimStart(Tail(s)) ELSE s

RECURSIVE TrimEnd(_)
TrimEnd(s) ==
    IF s # <<>> /\ s[Len(s)] \in Ws THEN TrimEnd(SubSeq(s, 1, Len(s) - 1)) ELSE s

\* String.prototype.trim
Trim(s) == TrimEnd(TrimStart(s))

\* String.prototype.slice(start, end): negative indices count from the end
Slice(s, start, end) ==
    LET n  == Len(s)
        st == IF start < 0 THEN Max(n + start, 0) ELSE Min(start, n)
        en == IF end < 0 THEN Max(n + end, 0) ELSE Min(end, n)
    IN  IF st >= en THEN <<>> ELSE SubSeq(s, st + 1, en)

\* String.prototype.lastIndexOf(ch, fromIndex), 0-based, -1 when absent
LastIndexOf(s, ch, fromIndex) ==
    LET cand == {i \in 0..Min(fromIndex, Len(s) - 1) : s[i + 1] = ch}
    IN  IF cand = {} THEN -1 ELSE SetMax(cand)

RECURSIVE SkipNewlines(_, _)
SkipNewlines(s, i) ==
    IF i <= Len(s) /\ s[i] = "\n" THEN SkipNewlines(s, i + 1) ELSE i

\* text.split(/\n\n+/): the pieces between maximal runs of two or more newlines
RECURSIVE SplitParagraphs(_, _, _, _)
SplitParagraphs(s, i, cur, acc) ==
    IF i > Len(s) THEN Append(acc, cur)
    ELSE IF s[i] = "\n" /\ i + 1 <= Len(s) /\ s[i + 1] = "\n"
         THEN SplitParagraphs(s, SkipNewlines(s, i), <<>>, Append(acc, cur))
         ELSE SplitParagraphs(s, i + 1, Append(cur, s[i]), acc)

NonBlank(p) == Trim(p) # <<>>

\* text.split(/\n\n+/).filter(p => p.trim())
Paragraphs(s) == SelectSeq(SplitParagraphs(s, 1, <<>>, <<>>), NonBlank)

\* ------------------------------------------------------------------------
\* chunkText as a state machine
\* ------------------------------------------------------------------------
RECURSIVE StringsUpTo(_)
StringsUpTo(n) ==
    IF n = 0 THEN {<<>>}
    ELSE LET S == StringsUpTo(n - 1)
         IN  S \cup {Append(s, c) : s \in {t \in S : Len(t) = n - 1}, c \in Alphabet}

NoOp == [kind |-> "none", pc |-> "none", restaurant |-> "-", documentId |-> 0,
         n |-> 0, chunksDeleted |-> 0, documentDeleted |-> FALSE]
NoSearch == [pc |-> "idle", restaurant |-> "-", limit |-> 0, result |-> <<>>,
             rejected |-> {}]

\* the store variables of an empty store with no call in flight
StoreIdle ==
    /\ chunksColl = {}
    /\ docsColl = {}
    /\ nextDocId = 1
    /\ nextChunkId = 1
    /\ op = NoOp
    /\ search = NoSearch

IdleCaller == [pc |-> "idle", api |-> "-", local |-> 0, got |-> 0]

\* no connection cached, no call in flight
ConnIdle ==
    /\ client = 0
    /\ isConnecting = FALSE
    /\ cachedClient = 0
    /\ mongoClients = <<>>
    /\ callers = [p \in 1..NumCallers |-> IdleCaller]

IdleUpload == [pc |-> "idle", version |-> "-", restaurant |-> "-", filename |-> "-",
               rows |-> 0, csvType |-> "-", uploadedAt |-> 0,
               deletedCount |-> 0]
NoCmd == [kind |-> "none", name |-> "-", filter |-> {}]

\* an empty CSV collection, no upload in flight
CsvIdle ==
    /\ csvColl = {}
    /\ uploads = [u \in 1..NumUploads |-> IdleUpload]
    /\ nextCsvId = 1
    /\ now = 1
    /\ lastCmd = NoCmd

NoEmbed == [pc |-> "idle", path |-> "-", texts |-> <<>>, i |-> 0,
            allEmbeddings |-> <<>>, calls |-> <<>>, output |-> <<>>]

\* no batch embedding call in flight
EmbedIdle == emb = NoEmbed

NoFuse == [pc |-> "idle", limit |-> 0, vectorResults |-> <<>>, textResults |-> <<>>,
           vectorRanked |-> <<>>, textRanked |-> <<>>, fused |-> <<>>,
           result |-> <<>>, csvFused |-> <<>>]

\* no fusion modelled
FuseIdle == fuse = NoFuse

NoDetect == [pc |-> "idle", headers |-> {}, csvType |-> "-"]

\* no header row under detection
DetectIdle == detect = NoDetect

NoPager == [pc |-> "idle", maxItems |-> 0, allData |-> <<>>, cursor |-> "-",
            requests |-> 0, fetched |-> <<>>, result |-> <<>>]

\* no loyverseGetAll call in flight
PagerIdle == pager = NoPager

\* the chunkText variables when no call is modelled
ChunkIdle ==
    /\ text = <<>>
    /\ maxChars = 1
    /\ overlap = 0
    /\ paragraphs = <<>>
    /\ paraIdx = 1
    /\ currentChunk = <<>>
    /\ chunkIndex = 0
    /\ chunks = <<>>
    /\ cpc = "idle"

ChunkInit ==
    /\ text \in StringsUpTo(MaxTextLen)
    /\ maxChars \in 1..(MaxTextLen + 1)
    /\ overlap \in 0..(maxChars - 1)
    /\ paragraphs = <<>>
    /\ paraIdx = 1
    /\ currentChunk = <<>>
    /\ chunkIndex = 0
    /\ chunks = <<>>
    /\ cpc = "start"

\* line 496: para.trim()
TrimmedParaRaw(p) == p
TrimmedPara(p) == Trim(p)

\* chunkIndex++ (lines 502, 521)
NextIndexStuck(i) == i
NextIndex(i) == i + 1

\* lines 516-517: the split position of an over-long buffer
ActualSplitNoFrom(cur) ==
    LET splitPoint == LastIndexOf(cur, " ", Len(cur))
    IN  IF 2 * splitPoint > maxChars THEN splitPoint ELSE maxChars
ActualSplit(cur) ==
    LET splitPoint == LastIndexOf(cur, " ", maxChars)
    IN  IF 2 * splitPoint > maxChars THEN splitPoint ELSE maxChars

\* where the loop goes once the buffer holds `cur` and paragraph `idx` is done
AfterPara(cur, idx) ==
    IF Len(cur) > maxChars THEN "split"
    ELSE IF idx < Len(paragraphs) THEN "para" ELSE "final"

\* lines 487-493: split, filter, initialise
ChunkStart ==
    /\ cpc = "start"
    /\ paragraphs' = Paragraphs(text)
    /\ cpc' = IF Paragraphs(text) = <<>> THEN "final" ELSE "para"
    /\ UNCHANGED <<text, maxChars, overlap, paraIdx, currentChunk, chunkIndex, chunks>>
    /\ UNCHANGED nonChunkVars

\* lines 495-512: one paragraph of the for loop, up to the while test.
\* pushedAt records which of the three push statements made a chunk; it is
\* history, not a field of ChunkResult.
ParaStep ==
    /\ cpc = "para"
    /\ LET trimmedPara == TrimmedPara(paragraphs[paraIdx])
           emit == currentChunk # <<>>
                   /\ Len(currentChunk) + Len(trimmedPara) + 2 > maxChars
           cur == IF emit
                  THEN IF overlap > 0 /\ Len(currentChunk) > overlap
                       THEN Slice(currentChunk, -overlap, Len(currentChunk))
                                \o NL2 \o trimmedPara
                       ELSE trimmedPara
                  ELSE currentChunk
                       \o (IF currentChunk # <<>> THEN NL2 ELSE <<>>)
                       \o trimmedPara
       IN  /\ chunks' = IF emit
                        THEN Append(chunks, [content |-> Trim(currentChunk),
                                             index |-> chunkIndex,
                                             pushedAt |-> "paragraph"])
                        ELSE chunks
           /\ chunkIndex' = IF emit THEN NextIndex(chunkIndex) ELSE chunkIndex
           /\ currentChunk' = cur
           /\ cpc' = AfterPara(cur, paraIdx)
           /\ paraIdx' = IF Len(cur) > maxChars THEN paraIdx ELSE paraIdx + 1
    /\ UNCHANGED <<text, maxChars, overlap, paragraphs>>
    /\ UNCHANGED nonChunkVars

\* lines 515-525: one iteration of the long-paragraph while loop
SplitStep ==
    /\ cpc = "split"
    /\ Len(chunks) < MaxChunks
    /\ LET actualSplit == ActualSplit(currentChunk)
           cur == Trim(Slice(currentChunk, actualSplit - overlap, Len(currentChunk)))
       IN  /\ chunks' = Append(chunks,
                               [content |-> Trim(Slice(currentChunk, 0, actualSplit)),
                                index |-> chunkIndex, pushedAt |-> "split"])
           /\ chunkIndex' = NextIndex(chunkIndex)
           /\ currentChunk' = cur
           /\ cpc' = AfterPara(cur, paraIdx)
           /\ paraIdx' = IF Len(cur) > maxChars THEN paraIdx ELSE paraIdx + 1
    /\ UNCHANGED <<text, maxChars, overlap, paragraphs>>
    /\ UNCHANGED nonChunkVars

\* lines 528-533: flush the trailing buffer and return
ChunkFinal ==
    /\ cpc = "final"
    /\ chunks' = IF Trim(currentChunk) # <<>>
                 THEN Append(chunks, [content |-> Trim(currentChunk),
                                      index |-> chunkIndex, pushedAt |-> "end"])
                 ELSE chunks
    /\ cpc' = "done"
    /\ UNCHANGED <<text, maxChars, overlap, paragraphs, paraIdx, currentChunk, chunkIndex>>
    /\ UNCHANGED nonChunkVars

NextChunk ==
    \/ ChunkStart
    \/ ParaStep
    \/ SplitStep
    \/ ChunkFinal

InitChunk == ChunkInit /\ StoreIdle /\ ConnIdle /\ CsvIdle /\ EmbedIdle /\ FuseIdle
             /\ DetectIdle /\ PagerIdle

SpecChunk == InitChunk /\ [][NextChunk]_vars

\* ------------------------------------------------------------------------
\* Properties of chunkText
\* ------------------------------------------------------------------------
ChunkDone == cpc = "done"

\* C7: every chunk emitted by chunkText has length at most maxChars
\* (valid parameters: maxChars > 0, 0 <= overlap < maxChars).
C7_ChunkLengthBounded ==
    \A i \in 1..Len(chunks) : Len(chunks[i].content) <= maxChars

\* a finished call that split an over-long text and emitted a full-size chunk
C7_Witness ==
    /\ ChunkDone
    /\ Len(text) > maxChars
    /\ Len(chunks) >= 2
    /\ \E i \in 1..Len(chunks) : Len(chunks[i].content) = maxChars

\* C8: every iteration of the long-paragraph while loop strictly shortens
\* the running buffer (so chunkText terminates for all valid parameters).
C8_SplitLoopShortens ==
    [][cpc = "split" => Len(currentChunk') < Len(currentChunk)]_vars

\* C9: the indices of the returned chunks are exactly 0..N-1 in emission
\* order, and the chunks appear in original text order: ignoring
\* whitespace, each chunk is a contiguous piece of the text and the pieces
\* start at non-decreasing positions.
NonWs(s) == SelectSeq(s, LAMBDA c : c \notin Ws)

OccursAt(p, t, o) ==
    /\ o + Len(p) <= Len(t)
    /\ \A k \in 1..Len(p) : t[o + k] = p[k]

SetMin(S) == CHOOSE x \in S : \A y \in S : x <= y

RECURSIVE InTextOrder(_, _, _, _)
InTextOrder(cs, t, i, from) ==
    IF i > Len(cs) THEN TRUE
    ELSE LET p == NonWs(cs[i].content)
             offs == {o \in from..Len(t) : OccursAt(p, t, o)}
         IN  offs # {} /\ InTextOrder(cs, t, i + 1, SetMin(offs))

C9_IndicesContiguous ==
    /\ \A i \in 1..Len(chunks) : chunks[i].index = i - 1
    /\ InTextOrder(chunks, NonWs(text), 1, 0)

C9_Witness ==
    /\ ChunkDone
    /\ Len(chunks) >= 3
    /\ chunks[3].index = 2

\* C10 as stated: a non-blank text shorter than maxChars yields exactly one
\* chunk equal to the trimmed input, character for character.
BlankText(s) == Trim(s) = <<>>

C10_OneChunkEqualsTrimmedInput ==
    (ChunkDone /\ ~BlankText(text) /\ Len(text) < maxChars)
        => (Len(chunks) = 1 /\ chunks[1].content = Trim(text))

\* the end of the maximal whitespace run starting at position i
RECURSIVE WsRunEnd(_, _)
WsRunEnd(s, i) ==
    IF i <= Len(s) /\ s[i] \in Ws THEN WsRunEnd(s, i + 1) ELSE i

HasBreak(s, i, j) == \E k \in i..(j - 2) : s[k] = "\n" /\ s[k + 1] = "\n"

\* s with every maximal whitespace run that holds two consecutive newlines
\* replaced by exactly two newlines
RECURSIVE CollapseBreaks(_, _)
CollapseBreaks(s, i) ==
    IF i > Len(s) THEN <<>>
    ELSE IF s[i] \in Ws
         THEN LET j == WsRunEnd(s, i)
              IN  (IF HasBreak(s, i, j) THEN NL2 ELSE SubSeq(s, i, j - 1))
                      \o CollapseBreaks(s, j)
         ELSE <<s[i]>> \o CollapseBreaks(s, i + 1)

\* C10 (amended): a non-blank text shorter than maxChars yields exactly one
\* chunk, whose content is the trimmed input with every paragraph break (a
\* whitespace run holding a blank line) normalised to exactly "\n\n".
C10_OneChunkNormalised ==
    (ChunkDone /\ ~BlankText(text) /\ Len(text) < maxChars)
        => (Len(chunks) = 1
            /\ chunks[1].content = CollapseBreaks(Trim(text), 1))

\* a short text of several paragraphs whose chunk differs from the trimmed input
C10_Witness ==
    /\ ChunkDone
    /\ Len(text) < maxChars
    /\ Len(paragraphs) >= 2
    /\ Len(chunks) = 1
    /\ chunks[1].content # Trim(text)


\* ------------------------------------------------------------------------
\* The rich-document store: ingestDocument, deleteDocument, hybridSearch.
\* One lifecycle call (ingest or delete) and one search are in flight at a
\* time; every await of the code is a step boundary, and every store or
\* provider call may fail.
\* ------------------------------------------------------------------------
Tenants == {"A", "B"}
Absent == "-"            \* an argument that is missing, invalid or undetected

RRF_K == 60

OpFree == op.pc \in {"none", "returned", "failed"}

\* lines 707-713: collections, fresh document id, chunkText
IngestBegin(r, n) ==
    /\ OpFree
    /\ op' = [NoOp EXCEPT !.kind = "ingest", !.pc = "embed", !.restaurant = r,
                          !.documentId = nextDocId, !.n = n]
    /\ nextDocId' = nextDocId + 1
    /\ UNCHANGED <<chunksColl, docsColl, nextChunkId, search>>
    /\ UNCHANGED nonStoreVars

\* lines 716-717: generateBatchEmbeddings resolved; lines 734-736 skip the
\* insert when there is no chunk
IngestEmbedOk ==
    /\ op.kind = "ingest" /\ op.pc = "embed"
    /\ op' = [op EXCEPT !.pc = IF op.n > 0 THEN "insertChunks" ELSE "insertDoc"]
    /\ UNCHANGED <<chunksColl, docsColl, nextDocId, nextChunkId, search>>
    /\ UNCHANGED nonStoreVars

\* lines 461-464: the provider call failed, ingestDocument throws
IngestEmbedFail ==
    /\ op.kind = "ingest" /\ op.pc = "embed"
    /\ op' = [op EXCEPT !.pc = "failed"]
    /\ UNCHANGED <<chunksColl, docsColl, nextDocId, nextChunkId, search>>
    /\ UNCHANGED nonStoreVars

\* chunk records that miss the last chunk of the document
ChunkDocsWithoutLast(r, d, k, firstId) ==
    {[id |-> firstId + i, document_id |-> d, restaurant |-> r, chunk_index |-> i]
        : i \in 0..(k - 2)}

\* lines 720-731: the chunk records of the first k chunks of the document
ChunkDocs(r, d, k, firstId) ==
    {[id |-> firstId + i, document_id |-> d, restaurant |-> r, chunk_index |-> i]
        : i \in 0..(k - 1)}

\* lines 734-736: chunksCollection.insertMany(chunkDocs) succeeded
IngestInsertChunks ==
    /\ op.kind = "ingest" /\ op.pc = "insertChunks"
    /\ chunksColl' = chunksColl
                       \cup ChunkDocs(op.restaurant, op.documentId, op.n, nextChunkId)
    /\ nextChunkId' = nextChunkId + op.n
    /\ op' = [op EXCEPT !.pc = "insertDoc"]
    /\ UNCHANGED <<docsColl, nextDocId, search>>
    /\ UNCHANGED nonStoreVars

\* line 735 throws: an ordered bulk insert stops at the failing record and
\* keeps the k records written before it
IngestInsertChunksFail(k) ==
    /\ op.kind = "ingest" /\ op.pc = "insertChunks"
    /\ k < op.n
    /\ chunksColl' = chunksColl
                       \cup ChunkDocs(op.restaurant, op.documentId, k, nextChunkId)
    /\ nextChunkId' = nextChunkId + k
    /\ op' = [op EXCEPT !.pc = "failed"]
    /\ UNCHANGED <<docsColl, nextDocId, search>>
    /\ UNCHANGED nonStoreVars

\* lines 739-755: docsCollection.insertOne(storedDoc) succeeded, return
IngestInsertDoc ==
    /\ op.kind = "ingest" /\ op.pc = "insertDoc"
    /\ docsColl' = docsColl \cup {[document_id |-> op.documentId,
                                  restaurant |-> op.restaurant,
                                  chunk_count |-> op.n]}
    /\ op' = [op EXCEPT !.pc = "returned"]
    /\ UNCHANGED <<chunksColl, nextDocId, nextChunkId, search>>
    /\ UNCHANGED nonStoreVars

\* line 749 throws
IngestInsertDocFail ==
    /\ op.kind = "ingest" /\ op.pc = "insertDoc"
    /\ op' = [op EXCEPT !.pc = "failed"]
    /\ UNCHANGED <<chunksColl, docsColl, nextDocId, nextChunkId, search>>
    /\ UNCHANGED nonStoreVars

\* lines 779-784: deleteDocument(restaurant, documentId) called
DeleteBegin(r, d) ==
    /\ OpFree
    /\ op' = [NoOp EXCEPT !.kind = "delete", !.pc = "deleteChunks",
                          !.restaurant = r, !.documentId = d]
    /\ UNCHANGED <<chunksColl, docsColl, nextDocId, nextChunkId, search>>
    /\ UNCHANGED nonStoreVars

MatchingAnyTenant(coll, r, d) == {x \in coll : x.document_id = d}

\* the records a {restaurant, document_id} filter selects
Matching(coll, r, d) == {x \in coll : x.restaurant = r /\ x.document_id = d}

\* lines 787-790: chunksCollection.deleteMany({restaurant, document_id})
DeleteChunks ==
    /\ op.kind = "delete" /\ op.pc = "deleteChunks"
    /\ LET hit == Matching(chunksColl, op.restaurant, op.documentId)
       IN  /\ chunksColl' = chunksColl \ hit
           /\ op' = [op EXCEPT !.pc = "deleteDoc", !.chunksDeleted = Cardinality(hit)]
    /\ UNCHANGED <<docsColl, nextDocId, nextChunkId, search>>
    /\ UNCHANGED nonStoreVars

\* line 787 throws
DeleteChunksFail ==
    /\ op.kind = "delete" /\ op.pc = "deleteChunks"
    /\ op' = [op EXCEPT !.pc = "failed"]
    /\ UNCHANGED <<chunksColl, docsColl, nextDocId, nextChunkId, search>>
    /\ UNCHANGED nonStoreVars

\* lines 793-801: docsCollection.deleteOne({restaurant, document_id}), return
DeleteDoc ==
    /\ op.kind = "delete" /\ op.pc = "deleteDoc"
    /\ LET hit == Matching(docsColl, op.restaurant, op.documentId)
       IN  /\ docsColl' = IF hit = {} THEN docsColl
                          ELSE docsColl \ {CHOOSE x \in hit : TRUE}
           /\ op' = [op EXCEPT !.pc = "returned", !.documentDeleted = hit # {}]
    /\ UNCHANGED <<chunksColl, nextDocId, nextChunkId, search>>
    /\ UNCHANGED nonStoreVars

\* line 793 throws
DeleteDocFail ==
    /\ op.kind = "delete" /\ op.pc = "deleteDoc"
    /\ op' = [op EXCEPT !.pc = "failed"]
    /\ UNCHANGED <<chunksColl, docsColl, nextDocId, nextChunkId, search>>
    /\ UNCHANGED nonStoreVars

\* ------------------------------------------------------------------------
\* reciprocalRankFusion (rich documents) and hybridSearch.  Scores are exact
\* fractions [num, den].
\* ------------------------------------------------------------------------
Range(q) == {q[i] : i \in 1..Len(q)}

\* the sequences of at most n distinct elements of S: what a search engine
\* may return, in rank order, from the candidate set S under a limit of n
RECURSIVE SeqsDistinct(_, _)
SeqsDistinct(S, n) ==
    IF n = 0 THEN {<<>>}
    ELSE LET P == SeqsDistinct(S, n - 1)
             L == {q \in P : Len(q) = n - 1}
         IN  P \cup {Append(pr[1], pr[2]) : pr \in {x \in L \X S : x[2] \notin Range(x[1])}}

Limit(q, n) == SubSeq(q, 1, Min(n, Len(q)))

\* line 626: the $vectorSearch filter
VectorFilter(c, r) == c.restaurant = r

\* line 657: the $match stage after $search
TextMatchAll(c, r) == TRUE
TextMatch(c, r) == c.restaurant = r

\* lines 618-642: what the vector aggregate may resolve to
VectorResults(r, limit) ==
    SeqsDistinct({c \in chunksColl : VectorFilter(c, r)}, limit * 3)

\* lines 645-675: $search ranks any chunks of the collection, then $match
\* and $limit.  (A $search output longer than limit * 3 yields no outcome
\* that one of at most limit * 3 hits does not.)
TextResults(r, limit) ==
    {Limit(SelectSeq(raw, LAMBDA c : TextMatch(c, r)), limit * 3)
        : raw \in SeqsDistinct(chunksColl, limit * 3)}

RankedZeroBased(results) ==
    [i \in 1..Len(results) |-> [id |-> results[i].id, rank |-> i - 1, doc |-> results[i]]]

\* lines 679-689: rank a result list, 1-based, keyed by _id
Ranked(results) ==
    [i \in 1..Len(results) |-> [id |-> results[i].id, rank |-> i, doc |-> results[i]]]

Frac(n, d) == [num |-> n, den |-> d]
FracAdd(a, b) == Frac(a.num * b.den + b.num * a.den, a.den * b.den)
FracLess(a, b) == a.num * b.den < b.num * a.den
FracEq(a, b) == a.num * b.den = b.num * a.den

\* lines 558-589: one iteration of either scoring loop on the score map
\* (a Map keeps insertion order)
AddScore(scores, item, src, k) ==
    LET rrfScore == Frac(1, k + item.rank)
        at == {i \in 1..Len(scores) : scores[i].id = item.id}
    IN  IF at # {}
        THEN [i \in 1..Len(scores) |->
                 IF i \in at
                 THEN [scores[i] EXCEPT !.score = FracAdd(@, rrfScore),
                                        !.sources = @ \cup {src}]
                 ELSE scores[i]]
        ELSE Append(scores, [id |-> item.id, score |-> rrfScore, doc |-> item.doc,
                             sources |-> {src}])

RECURSIVE ScoreAll(_, _, _, _, _)
ScoreAll(scores, ranked, i, src, k) ==
    IF i > Len(ranked) THEN scores
    ELSE ScoreAll(AddScore(scores, ranked[i], src, k), ranked, i + 1, src, k)

SortByScoreNone(sorted, entries, i) == entries

\* Array.prototype.sort((a, b) => b.score - a.score): stable, descending
RECURSIVE SortByScore(_, _, _)
SortByScore(sorted, entries, i) ==
    IF i > Len(entries) THEN sorted
    ELSE LET x == entries[i]
             before == {j \in 1..Len(sorted) : FracLess(sorted[j].score, x.score)}
             pos == IF before = {} THEN Len(sorted) + 1 ELSE SetMin(before)
         IN  SortByScore(SubSeq(sorted, 1, pos - 1) \o <<x>>
                             \o SubSeq(sorted, pos, Len(sorted)),
                         entries, i + 1)

SourceTagNeverBoth(sources) == IF "vector" \in sources THEN "vector" ELSE "text"

\* line 598
SourceTag(sources) ==
    IF Cardinality(sources) = 2 THEN "both"
    ELSE IF "vector" \in sources THEN "vector" ELSE "text"

\* lines 546-601
reciprocalRankFusion(vectorRanked, textRanked, k) ==
    LET afterVector == ScoreAll(<<>>, vectorRanked, 1, "vector", k)
        scores == ScoreAll(afterVector, textRanked, 1, "text", k)
        sorted == SortByScore(<<>>, scores, 1)
    IN  [i \in 1..Len(sorted) |->
            [doc |-> sorted[i].doc, score |-> sorted[i].score,
             source |-> SourceTag(sorted[i].sources),
             document_id |-> sorted[i].doc.document_id]]

\* lines 678-694: rank, fuse with k = RRF_K, keep the first `limit`
FusedTop(vectorResults, textResults, limit) ==
    Limit(reciprocalRankFusion(Ranked(vectorResults), Ranked(textResults), RRF_K),
          limit)

\* lines 607-613: hybridSearch(restaurant, query, limit) called
SearchBegin(r, limit) ==
    /\ search.pc = "idle"
    /\ search' = [NoSearch EXCEPT !.pc = "embed", !.restaurant = r, !.limit = limit]
    /\ UNCHANGED <<chunksColl, docsColl, nextDocId, nextChunkId, op>>
    /\ UNCHANGED nonStoreVars

\* line 613: generateEmbedding(query) resolved
SearchEmbedOk ==
    /\ search.pc = "embed"
    /\ search' = [search EXCEPT !.pc = "query"]
    /\ UNCHANGED <<chunksColl, docsColl, nextDocId, nextChunkId, op>>
    /\ UNCHANGED nonStoreVars

\* lines 436-439: generateEmbedding throws
SearchEmbedFail ==
    /\ search.pc = "embed"
    /\ search' = [search EXCEPT !.pc = "failed"]
    /\ UNCHANGED <<chunksColl, docsColl, nextDocId, nextChunkId, op>>
    /\ UNCHANGED nonStoreVars

\* lines 616-694: both aggregates resolved; fuse and return
SearchQuery ==
    /\ search.pc = "query"
    /\ \E v \in VectorResults(search.restaurant, search.limit),
          t \in TextResults(search.restaurant, search.limit) :
          search' = [search EXCEPT !.pc = "done",
                                   !.result = FusedTop(v, t, search.limit)]
    /\ UNCHANGED <<chunksColl, docsColl, nextDocId, nextChunkId, op>>
    /\ UNCHANGED nonStoreVars

\* lines 616-676: Promise.all over the two aggregates, with no catch on
\* either: the await throws as soon as one of them has rejected
PromiseAllVectorOnly(rejected) == IF "vector" \in rejected THEN "done" ELSE "failed"
PromiseAll(rejected) == IF rejected = {} THEN "done" ELSE "failed"

\* lines 616-676: the aggregates named in `rejected` reject and
\* hybridSearch throws
SearchQueryFail(rejected) ==
    /\ search.pc = "query"
    /\ rejected # {}
    /\ search' = [search EXCEPT !.pc = PromiseAll(rejected), !.rejected = rejected]
    /\ UNCHANGED <<chunksColl, docsColl, nextDocId, nextChunkId, op>>
    /\ UNCHANGED nonStoreVars

\* the caller has consumed the outcome
SearchReturn ==
    /\ search.pc \in {"done", "failed"}
    /\ search' = NoSearch
    /\ UNCHANGED <<chunksColl, docsColl, nextDocId, nextChunkId, op>>
    /\ UNCHANGED nonStoreVars

\* rag.ts lines 816-833: getRAGStats issues its three reads under one
\* filter, which is empty when the restaurant argument is omitted
GetRAGStats(restaurant) ==
    /\ lastCmd' = [kind |-> "read", name |-> "getRAGStats",
                   filter |-> IF restaurant # Absent
                              THEN {<<"restaurant", restaurant>>} ELSE {}]
    /\ UNCHANGED <<csvColl, uploads, nextCsvId, now>>
    /\ UNCHANGED <<chunkVars, storeVars, connVars, embVars, fuseVars,
                   detectVars, pagerVars>>

NextStore ==
    \/ \E r \in Tenants, n \in 0..MaxChunksPerDoc :
          nextDocId <= MaxDocs /\ IngestBegin(r, n)
    \/ IngestEmbedOk
    \/ IngestEmbedFail
    \/ IngestInsertChunks
    \/ \E k \in 0..MaxChunksPerDoc : IngestInsertChunksFail(k)
    \/ IngestInsertDoc
    \/ IngestInsertDocFail
    \/ \E r \in Tenants, d \in 1..MaxDocs : DeleteBegin(r, d)
    \/ DeleteChunks
    \/ DeleteChunksFail
    \/ DeleteDoc
    \/ DeleteDocFail
    \/ \E r \in Tenants \cup {Absent} : GetRAGStats(r)

InitStore == ChunkIdle /\ StoreIdle /\ ConnIdle /\ CsvIdle /\ EmbedIdle /\ FuseIdle
             /\ DetectIdle /\ PagerIdle

\* document lifecycle: ingestDocument and deleteDocument
SpecStore == InitStore /\ [][NextStore]_vars

NextSearch ==
    \/ \E r \in Tenants, n \in 0..MaxChunksPerDoc :
          /\ nextDocId <= MaxDocs
          /\ nextChunkId + n <= MaxSearchChunks + 1
          /\ IngestBegin(r, n)
    \/ IngestEmbedOk
    \/ IngestEmbedFail
    \/ IngestInsertChunks
    \/ \E k \in 0..MaxChunksPerDoc : IngestInsertChunksFail(k)
    \/ IngestInsertDoc
    \/ IngestInsertDocFail
    \/ \E r \in Tenants, limit \in 1..MaxLimit : SearchBegin(r, limit)
    \/ SearchEmbedOk
    \/ SearchEmbedFail
    \/ SearchQuery
    \/ \E rejected \in SUBSET {"vector", "text"} : SearchQueryFail(rejected)
    \/ SearchReturn

\* ingestDocument calls with a hybridSearch in flight beside them
SpecSearch == InitStore /\ [][NextSearch]_vars

\* ------------------------------------------------------------------------
\* Properties of the rich-document store
\* ------------------------------------------------------------------------

\* C1: hybridSearch(B, query, limit) never returns a chunk whose restaurant
\* is another tenant, whatever has been ingested and however the two search
\* engines rank it.
C1_TenantIsolation ==
    search.pc = "done"
        => \A i \in 1..Len(search.result) :
               search.result[i].doc.restaurant = search.restaurant

\* a search under B returned a hit while tenant A has chunks in the store
C1_Witness ==
    /\ search.pc = "done"
    /\ search.restaurant = "B"
    /\ search.result # <<>>
    /\ \E c \in chunksColl : c.restaurant = "A"

\* C14: a hybridSearch whose text query alone failed does not fail: it
\* returns (the fusion of the vector hits alone).
C14_TextFailureTolerated ==
    search.rejected = {"text"} => search.pc = "done"

\* C15: a hybridSearch whose vector query failed fails as a whole and
\* returns no results, whether or not the text query failed too.
C15_VectorFailureFatal ==
    "vector" \in search.rejected
        => search.pc = "failed" /\ search.result = <<>>

\* the vector query of a search failed while its text query succeeded, with
\* chunks of the searched restaurant in the store
C15_Witness ==
    /\ search.pc = "failed"
    /\ search.rejected = {"vector"}
    /\ \E c \in chunksColl : c.restaurant = search.restaurant

ChunksOf(d) == {c \in chunksColl : c.document_id = d}

\* C2: in every reachable state every Document record's chunk_count equals
\* the number of chunk records that carry its document_id.
C2_ChunkCountMatches ==
    \A d \in docsColl : d.chunk_count = Cardinality(ChunksOf(d.document_id))

\* C3: once ingestDocument has failed, the store holds no Document record
\* and no chunk record for the document id of that attempt.
C3_FailedIngestLeavesNothing ==
    (op.kind = "ingest" /\ op.pc = "failed")
        => /\ ChunksOf(op.documentId) = {}
           /\ \A d \in docsColl : d.document_id # op.documentId

\* ------------------------------------------------------------------------
\* Store connections: getClient (rag.ts) and connectToDatabase (mongodb.ts).
\* A caller runs from one await to the next in one step.  The connection
\* string is configured.
\* ------------------------------------------------------------------------
Callers == 1..NumCallers

NewClient(owner) == Append(mongoClients, [owner |-> owner, state |-> "connecting"])

SetClientState(i, st) == [mongoClients EXCEPT ![i].state = st]

\* rag.ts lines 364-381: from the call (or from a turn of the wait loop) to
\* the first await
GetClientEnter(p) ==
    /\ \/ callers[p].pc = "idle"
       \/ callers[p].pc = "waiting" /\ callers[p].api = "rag"
    /\ IF client # 0
       THEN /\ callers' = [callers EXCEPT ![p] =
                               [IdleCaller EXCEPT !.pc = "done", !.api = "rag",
                                                  !.got = client]]
            /\ UNCHANGED <<client, isConnecting, mongoClients>>
       ELSE IF isConnecting
       THEN /\ callers' = [callers EXCEPT ![p] =
                               [IdleCaller EXCEPT !.pc = "waiting", !.api = "rag"]]
            /\ UNCHANGED <<client, isConnecting, mongoClients>>
       ELSE /\ Len(mongoClients) < MaxClients
            /\ isConnecting' = TRUE
            /\ mongoClients' = NewClient("rag")
            /\ client' = Len(mongoClients) + 1
            /\ callers' = [callers EXCEPT ![p] =
                               [IdleCaller EXCEPT !.pc = "connecting", !.api = "rag",
                                                  !.local = Len(mongoClients) + 1]]
    /\ UNCHANGED cachedClient
    /\ UNCHANGED nonConnVars

\* rag.ts lines 381-385: connect() resolved; return client; finally
GetClientConnectOk(p) ==
    /\ callers[p].pc = "connecting" /\ callers[p].api = "rag"
    /\ mongoClients' = SetClientState(callers[p].local, "connected")
    /\ callers' = [callers EXCEPT ![p].pc = "done", ![p].got = client]
    /\ isConnecting' = FALSE
    /\ UNCHANGED <<client, cachedClient>>
    /\ UNCHANGED nonConnVars

\* rag.ts lines 381-385: connect() rejected; finally; the error propagates
GetClientConnectFail(p) ==
    /\ callers[p].pc = "connecting" /\ callers[p].api = "rag"
    /\ mongoClients' = SetClientState(callers[p].local, "failed")
    /\ callers' = [callers EXCEPT ![p].pc = "failed"]
    /\ isConnecting' = FALSE
    /\ UNCHANGED <<client, cachedClient>>
    /\ UNCHANGED nonConnVars

\* mongodb.ts lines 50-62: from the call to the await of connect()
ConnectEnter(p) ==
    /\ callers[p].pc = "idle"
    /\ IF cachedClient # 0
       THEN /\ callers' = [callers EXCEPT ![p] =
                               [IdleCaller EXCEPT !.pc = "done", !.api = "csv",
                                                  !.got = cachedClient]]
            /\ UNCHANGED mongoClients
       ELSE /\ Len(mongoClients) < MaxClients
            /\ mongoClients' = NewClient("csv")
            /\ callers' = [callers EXCEPT ![p] =
                               [IdleCaller EXCEPT !.pc = "connecting", !.api = "csv",
                                                  !.local = Len(mongoClients) + 1]]
    /\ UNCHANGED <<client, isConnecting, cachedClient>>
    /\ UNCHANGED nonConnVars

\* mongodb.ts lines 62-70: connect() resolved; cache and return the client
ConnectOk(p) ==
    /\ callers[p].pc = "connecting" /\ callers[p].api = "csv"
    /\ mongoClients' = SetClientState(callers[p].local, "connected")
    /\ cachedClient' = callers[p].local
    /\ callers' = [callers EXCEPT ![p].pc = "done", ![p].got = callers[p].local]
    /\ UNCHANGED <<client, isConnecting>>
    /\ UNCHANGED nonConnVars

\* mongodb.ts line 62: connect() rejected, nothing is cached
ConnectFail(p) ==
    /\ callers[p].pc = "connecting" /\ callers[p].api = "csv"
    /\ mongoClients' = SetClientState(callers[p].local, "failed")
    /\ callers' = [callers EXCEPT ![p].pc = "failed"]
    /\ UNCHANGED <<client, isConnecting, cachedClient>>
    /\ UNCHANGED nonConnVars

\* the caller has used the outcome and may call again
CallerReturn(p) ==
    /\ callers[p].pc \in {"done", "failed"}
    /\ callers' = [callers EXCEPT ![p] = IdleCaller]
    /\ UNCHANGED <<client, isConnecting, cachedClient, mongoClients>>
    /\ UNCHANGED nonConnVars

NextConn ==
    \/ \E p \in Callers : GetClientEnter(p)
    \/ \E p \in Callers : GetClientConnectOk(p)
    \/ \E p \in Callers : GetClientConnectFail(p)
    \/ \E p \in Callers : ConnectEnter(p)
    \/ \E p \in Callers : ConnectOk(p)
    \/ \E p \in Callers : ConnectFail(p)
    \/ \E p \in Callers : CallerReturn(p)

InitConn == ChunkIdle /\ StoreIdle /\ ConnIdle /\ CsvIdle /\ EmbedIdle /\ FuseIdle
             /\ DetectIdle /\ PagerIdle

SpecConn == InitConn /\ [][NextConn]_vars

\* the clients an accessor has constructed that have not failed to connect
LiveClients(owner) ==
    {i \in 1..Len(mongoClients) :
        mongoClients[i].owner = owner /\ mongoClients[i].state # "failed"}

\* C4: callers of a store-connection accessor never create more than one
\* MongoClient while none is cached (at most one client per accessor is
\* connecting or connected), and all callers of an accessor that have
\* returned hold the same client.
C4_SingleClient ==
    /\ \A owner \in {"rag", "csv"} : Cardinality(LiveClients(owner)) <= 1
    /\ \A p, q \in Callers :
           (callers[p].pc = "done" /\ callers[q].pc = "done"
                /\ callers[p].api = callers[q].api)
               => callers[p].got = callers[q].got

\* ------------------------------------------------------------------------
\* CSV collection: the upload route and the CSV search library.  A chunk is
\* its metadata; a filter is a set of <<field, value>> equality clauses.
\* Each upload request is received once and runs from one store or
\* embedding call to the next in one step.
\* ------------------------------------------------------------------------
Uploads == 1..NumUploads
Filenames == {"f", "g"}
VALID_CSV_TYPES == {"products", "sales", "inventory"}
Files == {"none", "big", "ok"}
CsvTypeArgs == {"sales", Absent}     \* the csvType values requests carry

Matches(c, filter) == \A pv \in filter : c[pv[1]] = pv[2]

Rejected == [IdleUpload EXCEPT !.pc = "rejected"]

\* the validations both handlers make before anything else
BadRequest(file, restaurant) ==
    \/ file = "none"
    \/ file = "big"
    \/ restaurant \notin Tenants

Accepted(version, restaurant, filename, rows, csvType) ==
    [pc |-> "delete", version |-> version, restaurant |-> restaurant,
     filename |-> filename, rows |-> rows, csvType |-> csvType, uploadedAt |-> 0,
     deletedCount |-> 0]

\* upload/route.ts lines 78-116: the handler that is told the CSV type
PostExplicit(u, file, restaurant, filename, rows, csvType) ==
    /\ uploads[u].pc = "idle"
    /\ uploads' = [uploads EXCEPT ![u] =
           IF BadRequest(file, restaurant) \/ csvType \notin VALID_CSV_TYPES
           THEN Rejected
           ELSE Accepted("explicit", restaurant, filename, rows, csvType)]
    /\ UNCHANGED <<csvColl, nextCsvId, now, lastCmd>>
    /\ UNCHANGED nonCsvVars

\* upload/route.ts lines 306-367: the handler that detects the CSV type
PostDetect(u, file, restaurant, filename, rows, csvType) ==
    /\ uploads[u].pc = "idle"
    /\ uploads' = [uploads EXCEPT ![u] =
           IF BadRequest(file, restaurant) \/ rows = 0 \/ csvType = Absent
           THEN Rejected
           ELSE Accepted("detect", restaurant, filename, rows, csvType)]
    /\ UNCHANGED <<csvColl, nextCsvId, now, lastCmd>>
    /\ UNCHANGED nonCsvVars

\* rag.ts lines 211-215
deleteByFilename(filename) == {<<"filename", filename>>}

\* upload/route.ts lines 117-143 and 368-377: deleteByFilename resolved, up
\* to the embedding call
UploadDelete(u) ==
    /\ uploads[u].pc = "delete"
    /\ LET filter == deleteByFilename(uploads[u].filename) IN
         /\ csvColl' = {c \in csvColl : ~Matches(c, filter)}
         /\ lastCmd' = [kind |-> "delete", name |-> "deleteByFilename",
                        filter |-> filter]
    /\ IF uploads[u].rows = 0
       THEN /\ uploads' = [uploads EXCEPT ![u] = Rejected]
            /\ UNCHANGED now
       ELSE /\ uploads' = [uploads EXCEPT
                   ![u].pc = "embed",
                   ![u].uploadedAt = now,
                   ![u].deletedCount =
                       Cardinality({c \in csvColl :
                           Matches(c, deleteByFilename(uploads[u].filename))})]
            /\ now' = now + 1
    /\ UNCHANGED nextCsvId
    /\ UNCHANGED nonCsvVars

\* upload/route.ts lines 173-177 and 408-412: a rejected call ends in 500
UploadDeleteFail(u) ==
    /\ uploads[u].pc = "delete"
    /\ uploads' = [uploads EXCEPT ![u].pc = "failed"]
    /\ UNCHANGED <<csvColl, nextCsvId, now, lastCmd>>
    /\ UNCHANGED nonCsvVars

\* upload/route.ts lines 144-160 and 378-394: the embeddings arrived
UploadEmbedOk(u) ==
    /\ uploads[u].pc = "embed"
    /\ uploads' = [uploads EXCEPT ![u].pc = "insert"]
    /\ UNCHANGED <<csvColl, nextCsvId, now, lastCmd>>
    /\ UNCHANGED nonCsvVars

UploadEmbedFail(u) ==
    /\ uploads[u].pc = "embed"
    /\ uploads' = [uploads EXCEPT ![u].pc = "failed"]
    /\ UNCHANGED <<csvColl, nextCsvId, now, lastCmd>>
    /\ UNCHANGED nonCsvVars

\* upload/route.ts lines 147-157 and 381-391: the first k rows as chunks
RowChunks(up, k, firstId) ==
    {[id |-> firstId + i, restaurant |-> up.restaurant, csv_type |-> up.csvType,
      filename |-> up.filename, row_index |-> i, uploaded_at |-> up.uploadedAt]
        : i \in 0..(k - 1)}

insertChunks(up, k) ==
    /\ csvColl' = csvColl \cup RowChunks(up, k, nextCsvId)
    /\ nextCsvId' = nextCsvId + k
    /\ lastCmd' = [kind |-> "insert", name |-> "insertChunks", filter |-> {}]

\* rag.ts lines 196-206 and upload/route.ts lines 160-172, 394-407
UploadInsert(u) ==
    /\ uploads[u].pc = "insert"
    /\ insertChunks(uploads[u], uploads[u].rows)
    /\ uploads' = [uploads EXCEPT ![u].pc = "done"]
    /\ UNCHANGED now
    /\ UNCHANGED nonCsvVars

\* insertMany rejected after the first k rows were written
UploadInsertFail(u, k) ==
    /\ uploads[u].pc = "insert"
    /\ k < uploads[u].rows
    /\ insertChunks(uploads[u], k)
    /\ uploads' = [uploads EXCEPT ![u].pc = "failed"]
    /\ UNCHANGED now
    /\ UNCHANGED nonCsvVars

\* rag.ts lines 36-43
metadataFilter(restaurant, csv_type) ==
    (IF restaurant # Absent THEN {<<"restaurant", restaurant>>} ELSE {})
      \cup (IF csv_type # Absent THEN {<<"csv_type", csv_type>>} ELSE {})

\* rag.ts lines 26-49: the CSV hybridSearch issues its two queries
CsvHybridSearch(restaurant, csv_type) ==
    /\ lastCmd' = [kind |-> "read", name |-> "hybridSearch",
                   filter |-> metadataFilter(restaurant, csv_type)]
    /\ UNCHANGED <<csvColl, uploads, nextCsvId, now>>
    /\ UNCHANGED nonCsvVars

\* rag.ts lines 220-251: the CSV listDocuments pipeline has no $match
CsvListDocuments ==
    /\ lastCmd' = [kind |-> "read", name |-> "listDocuments", filter |-> {}]
    /\ UNCHANGED <<csvColl, uploads, nextCsvId, now>>
    /\ UNCHANGED nonCsvVars

NextCsv ==
    \/ \E u \in Uploads, file \in Files, r \in Tenants \cup {Absent},
          f \in Filenames, n \in 0..MaxRows, t \in CsvTypeArgs :
           \/ PostExplicit(u, file, r, f, n, t)
           \/ PostDetect(u, file, r, f, n, t)
    \/ \E u \in Uploads : UploadDelete(u)
    \/ \E u \in Uploads : UploadDeleteFail(u)
    \/ \E u \in Uploads : UploadEmbedOk(u)
    \/ \E u \in Uploads : UploadEmbedFail(u)
    \/ \E u \in Uploads : UploadInsert(u)
    \/ \E u \in Uploads, k \in 0..MaxRows : UploadInsertFail(u, k)
    \/ \E r \in Tenants \cup {Absent}, t \in CsvTypeArgs :
           CsvHybridSearch(r, t)
    \/ CsvListDocuments

InitCsv == ChunkIdle /\ StoreIdle /\ ConnIdle /\ CsvIdle /\ EmbedIdle /\ FuseIdle
             /\ DetectIdle /\ PagerIdle

SpecCsv == InitCsv /\ [][NextCsv]_vars

HasTenantPredicate(filter) == \E pv \in filter : pv[1] = "restaurant"

\* C5: every read and every delete issued against the shared collections
\* carries a restaurant predicate; no operation spans all tenants merely
\* because the tenant argument was omitted (the code has no explicit
\* all-tenants option, so every such command must be scoped).
C5_EveryCommandTenantScoped ==
    lastCmd.kind \in {"read", "delete"} => HasTenantPredicate(lastCmd.filter)

\* C6: a stored chunk is removed or changed only by an upload of the chunk's
\* own restaurant: every chunk that a step takes out of the collection
\* belongs to the restaurant of an upload that performs its delete in that
\* step.
C6_UploadLeavesOtherTenants ==
    [][\A c \in csvColl \ csvColl' :
          \E u \in Uploads : /\ uploads[u].pc = "delete"
                             /\ uploads'[u].pc # "delete"
                             /\ uploads[u].restaurant = c.restaurant]_vars

\* ------------------------------------------------------------------------
\* Embedding batchers: generateEmbeddings (embeddings.ts, used by the upload
\* route) and generateBatchEmbeddings (rag.ts, used by ingestDocument).
\* The provider answers a request with one item per input, each carrying
\* the input's 0-based index, in an order of its own choosing.  emb.calls
\* lists the input arrays of the provider requests the call has issued.
\* ------------------------------------------------------------------------
Texts == {"x", "y", "z"}
BATCH_SIZE == 2              \* embeddings.ts line 50 (1000), scaled

TextLists == UNION {[1..n -> Texts] : n \in 0..MaxTexts}

\* the vector the provider computes for a text
Embedding(t) == [of |-> t]

Perms(n) == {q \in [1..n -> 1..n] : \A a, b \in 1..n : q[a] = q[b] => a = b}

\* the bodies response.data can have for a request with input `batch`
Responses(batch) ==
    {[j \in 1..Len(batch) |->
          [index |-> q[j] - 1, embedding |-> Embedding(batch[q[j]])]]
        : q \in Perms(Len(batch))}

\* texts.slice(i, i + BATCH_SIZE), i 0-based
Batch(texts, i) == SubSeq(texts, i + 1, Min(i + BATCH_SIZE, Len(texts)))

RECURSIVE InsertByIndex(_, _)
InsertByIndex(sorted, item) ==
    IF sorted = <<>> THEN <<item>>
    ELSE IF item.index < Head(sorted).index THEN <<item>> \o sorted
    ELSE <<Head(sorted)>> \o InsertByIndex(Tail(sorted), item)

RECURSIVE SortByIndex(_, _)
\* rag.ts line 469: json.data.sort((a, b) => a.index - b.index), stable
SortByIndex(data, j) ==
    IF j > Len(data) THEN <<>>
    ELSE InsertByIndex(SortByIndex(data, j + 1), data[j])

Embeddings(data) == [j \in 1..Len(data) |-> data[j].embedding]

\* embeddings.ts lines 41-59: an empty list returns at once, otherwise the
\* first batch is requested
GenerateEmbeddingsBegin(texts) ==
    /\ emb.pc = "idle"
    /\ emb' = IF Len(texts) = 0
              THEN [NoEmbed EXCEPT !.pc = "returned", !.path = "generateEmbeddings"]
              ELSE [NoEmbed EXCEPT !.pc = "await", !.path = "generateEmbeddings",
                                   !.texts = texts,
                                   !.calls = <<Batch(texts, 0)>>]
    /\ UNCHANGED nonEmbVars

\* embeddings.ts lines 53-66: a response arrives; its embeddings are
\* appended in arrival order, then the next batch is requested or the call
\* returns
GenerateEmbeddingsResponse ==
    /\ emb.pc = "await" /\ emb.path = "generateEmbeddings"
    /\ \E data \in Responses(Batch(emb.texts, emb.i)) :
       LET all == emb.allEmbeddings \o Embeddings(data)
           i == emb.i + BATCH_SIZE
       IN emb' = IF i < Len(emb.texts)
                 THEN [emb EXCEPT !.i = i, !.allEmbeddings = all,
                                  !.calls = Append(@, Batch(emb.texts, i))]
                 ELSE [emb EXCEPT !.i = i, !.allEmbeddings = all,
                                  !.pc = "returned", !.output = all]
    /\ UNCHANGED nonEmbVars

\* rag.ts lines 445-459: one request carrying every text, whatever their
\* number
GenerateBatchEmbeddingsBegin(texts) ==
    /\ emb.pc = "idle"
    /\ emb' = [NoEmbed EXCEPT !.pc = "await", !.path = "generateBatchEmbeddings",
                              !.texts = texts, !.calls = <<texts>>]
    /\ UNCHANGED nonEmbVars

\* rag.ts lines 466-470: the response is sorted by index
GenerateBatchEmbeddingsResponse ==
    /\ emb.pc = "await" /\ emb.path = "generateBatchEmbeddings"
    /\ \E data \in Responses(emb.texts) :
         emb' = [emb EXCEPT !.pc = "returned",
                          !.output = Embeddings(SortByIndex(data, 1))]
    /\ UNCHANGED nonEmbVars

\* the provider rejects the request (rag.ts lines 461-464; the OpenAI client
\* of embeddings.ts throws): the call throws
EmbedRequestFail ==
    /\ emb.pc = "await"
    /\ emb' = [emb EXCEPT !.pc = "failed"]
    /\ UNCHANGED nonEmbVars

\* the caller has the outcome
EmbedDone ==
    /\ emb.pc \in {"returned", "failed"}
    /\ emb' = NoEmbed
    /\ UNCHANGED nonEmbVars

NextEmbed ==
    \/ \E texts \in TextLists : GenerateEmbeddingsBegin(texts)
    \/ GenerateEmbeddingsResponse
    \/ \E texts \in TextLists : GenerateBatchEmbeddingsBegin(texts)
    \/ GenerateBatchEmbeddingsResponse
    \/ EmbedRequestFail
    \/ EmbedDone

InitEmbed == ChunkIdle /\ StoreIdle /\ ConnIdle /\ CsvIdle /\ EmbedIdle /\ FuseIdle
             /\ DetectIdle /\ PagerIdle

SpecEmbed == InitEmbed /\ [][NextEmbed]_vars

\* C11: an embedding call on an empty list of texts issues no provider
\* request on any path, and returns the empty list.
C11_EmptyListNoProviderCall ==
    (emb.pc # "idle" /\ emb.texts = <<>>)
        => /\ emb.calls = <<>>
           /\ emb.pc = "returned"
           /\ emb.output = <<>>

\* C12: a returned embedding call gives one vector per text, and the i-th
\* vector is the provider's vector for the i-th text, whatever the order of
\* the items in the provider's responses.
C12_OutputAlignedWithInput ==
    emb.pc = "returned"
        => /\ Len(emb.output) = Len(emb.texts)
           /\ \A j \in 1..Len(emb.texts) : emb.output[j] = Embedding(emb.texts[j])

\* C13: one provider request per batch, none carrying more than BATCH_SIZE
\* inputs: the requests issued so far partition a prefix of the texts into
\* batches of at most BATCH_SIZE.
C13_CallsWithinBatchSize ==
    \A j \in 1..Len(emb.calls) : Len(emb.calls[j]) <= BATCH_SIZE

\* ------------------------------------------------------------------------
\* Rank fusion: hybridSearch from the point where its two aggregates have
\* resolved (rag.ts lines 678-694), for every pair of result lists over a
\* small set of stored chunks and every limit.
\* ------------------------------------------------------------------------
FuseChunks == ChunkDocs("A", 1, MaxFuseChunks, 1)

ResultLists == SeqsDistinct(FuseChunks, MaxFuseChunks)

FuseInit ==
    \E v \in ResultLists, t \in ResultLists, limit \in 1..MaxFuseLimit :
        fuse = [NoFuse EXCEPT !.pc = "resolved", !.limit = limit,
                              !.vectorResults = v, !.textResults = t]

\* lines 679-689
FuseRank ==
    /\ fuse.pc = "resolved"
    /\ fuse' = [fuse EXCEPT !.pc = "ranked",
                            !.vectorRanked = Ranked(fuse.vectorResults),
                            !.textRanked = Ranked(fuse.textResults)]
    /\ UNCHANGED nonFuseVars

\* line 692
FuseApply ==
    /\ fuse.pc = "ranked"
    /\ fuse' = [fuse EXCEPT !.pc = "fused",
                            !.fused = reciprocalRankFusion(fuse.vectorRanked,
                                                           fuse.textRanked, RRF_K)]
    /\ UNCHANGED nonFuseVars

\* line 694
FuseSlice ==
    /\ fuse.pc = "fused"
    /\ fuse' = [fuse EXCEPT !.pc = "done", !.result = Limit(fuse.fused, fuse.limit)]
    /\ UNCHANGED nonFuseVars

NextFuse ==
    \/ FuseRank
    \/ FuseApply
    \/ FuseSlice

InitFuse == ChunkIdle /\ StoreIdle /\ ConnIdle /\ CsvIdle /\ EmbedIdle /\ FuseInit
             /\ DetectIdle /\ PagerIdle

SpecFuse == InitFuse /\ [][NextFuse]_vars

\* the contribution of a result list to a chunk: 1/(k + r) at 1-based
\* position r, nothing when the chunk is not in the list
Contribution(list, c) ==
    LET at == {r \in 1..Len(list) : list[r].id = c.id}
    IN  IF at = {} THEN Frac(0, 1) ELSE Frac(1, RRF_K + SetMin(at))

ExpectedScore(c) ==
    FracAdd(Contribution(fuse.vectorResults, c), Contribution(fuse.textResults, c))

FuseInputs == Range(fuse.vectorResults) \cup Range(fuse.textResults)

Fused == fuse.pc \in {"fused", "done"}

\* C16: the fused score of every chunk is the sum, over the lists the chunk
\* appears in, of 1/(60 + r) with r its 1-based position in the list; every
\* chunk of either list is scored.
C16_FusedScoreIsSumOfReciprocals ==
    Fused =>
        /\ \A c \in FuseInputs : \E i \in 1..Len(fuse.fused) : fuse.fused[i].doc = c
        /\ \A i \in 1..Len(fuse.fused) :
               /\ fuse.fused[i].doc \in FuseInputs
               /\ FracEq(fuse.fused[i].score, ExpectedScore(fuse.fused[i].doc))

\* one chunk is first in both lists and scores 2/61, another is first
\* in neither
C16_Witness ==
    /\ Fused
    /\ Len(fuse.vectorResults) >= 2
    /\ fuse.textResults # <<>>
    /\ fuse.vectorResults[1] = fuse.textResults[1]
    /\ \E i \in 1..Len(fuse.fused) : FracEq(fuse.fused[i].score, Frac(2, 61))
    /\ \E i \in 1..Len(fuse.fused) : FracEq(fuse.fused[i].score, Frac(1, 62))

\* C17: the lists are merged by chunk id: every chunk of either list is in
\* the fused output exactly once; it is tagged "both" with both
\* contributions added when both lists have it, and "vector" or "text" when
\* only that list has it.
C17_MergedByIdWithProvenance ==
    Fused =>
        /\ \A i, j \in 1..Len(fuse.fused) :
               fuse.fused[i].doc.id = fuse.fused[j].doc.id => i = j
        /\ \A c \in FuseInputs : \E i \in 1..Len(fuse.fused) :
               /\ fuse.fused[i].doc = c
               /\ fuse.fused[i].source =
                      IF c \in Range(fuse.vectorResults) /\ c \in Range(fuse.textResults)
                      THEN "both"
                      ELSE IF c \in Range(fuse.vectorResults) THEN "vector" ELSE "text"
               /\ (c \in Range(fuse.vectorResults) /\ c \in Range(fuse.textResults))
                      => FracEq(fuse.fused[i].score,
                                FracAdd(Contribution(fuse.vectorResults, c),
                                        Contribution(fuse.textResults, c)))

\* the fused output has a chunk of each provenance
C17_Witness ==
    /\ Fused
    /\ \A tag \in {"both", "vector", "text"} :
           \E i \in 1..Len(fuse.fused) : fuse.fused[i].source = tag

\* C18: the result is the first `limit` entries of the fused ranking: at
\* most `limit` entries, scores non-increasing, and no fused chunk left out
\* scores strictly higher than one that is in.
C18_TopLimitPrefix ==
    fuse.pc = "done" =>
        /\ Len(fuse.result) <= fuse.limit
        /\ Len(fuse.result) = Min(fuse.limit, Len(fuse.fused))
        /\ \A i \in 1..Len(fuse.result) : fuse.result[i] = fuse.fused[i]
        /\ \A i \in 1..Len(fuse.result) : \A j \in 1..Len(fuse.result) :
               i < j => ~FracLess(fuse.result[i].score, fuse.result[j].score)
        /\ \A i \in 1..Len(fuse.result) : \A j \in 1..Len(fuse.fused) :
               j > Len(fuse.result)
                   => ~FracLess(fuse.result[i].score, fuse.fused[j].score)

\* a fused ranking longer than the limit, with unequal scores, was cut
C18_Witness ==
    /\ fuse.pc = "done"
    /\ Len(fuse.fused) > fuse.limit
    /\ Len(fuse.result) = fuse.limit
    /\ FracLess(fuse.fused[Len(fuse.fused)].score, fuse.result[1].score)
    /\ fuse.vectorResults # <<>> /\ fuse.textResults # <<>>
    /\ fuse.vectorResults[1] # fuse.textResults[1]

\* C19: a deleteDocument that finds no Document record for (tenant, id)
\* returns {chunksDeleted: 0, documentDeleted: false}: it has deleted no
\* chunk either, so both collections are as they were.
C19_DeleteMissingIsNoOp ==
    (op.kind = "delete" /\ op.pc = "returned" /\ ~op.documentDeleted)
        => op.chunksDeleted = 0

\* C20: deleteDocument(tenant, id) removes records of (tenant, id) only, it
\* adds or changes none, and when it returns no chunk and no Document record
\* of (tenant, id) is left.
C20_DeleteRemovesExactlyTarget ==
    [][op.kind = "delete" =>
          /\ chunksColl' \subseteq chunksColl
          /\ docsColl' \subseteq docsColl
          /\ \A x \in (chunksColl \ chunksColl') \cup (docsColl \ docsColl') :
                 x.restaurant = op.restaurant /\ x.document_id = op.documentId
          /\ (op.pc # "returned" /\ op'.kind = "delete" /\ op'.pc = "returned")
                 => /\ Matching(chunksColl', op.restaurant, op.documentId) = {}
                    /\ Matching(docsColl', op.restaurant, op.documentId) = {}]_vars

\* a delete under B removed a document and its chunks while tenant A has a
\* document with chunks in the store
C20_Witness ==
    /\ op.kind = "delete" /\ op.pc = "returned" /\ op.restaurant = "B"
    /\ op.documentDeleted /\ op.chunksDeleted > 0
    /\ \E x \in docsColl : x.restaurant = "A" /\ ChunksOf(x.document_id) # {}

\* ------------------------------------------------------------------------
\* Document listing and chunk numbering.
\* ------------------------------------------------------------------------
\* rag.ts lines 762-777: the summaries of the tenant's Document records (the
\* created_at order of the listing is not modelled)
listDocuments(restaurant) ==
    {[document_id |-> d.document_id, chunk_count |-> d.chunk_count]
        : d \in {x \in docsColl : x.restaurant = restaurant}}

\* C21: when ingestDocument(tenant, ...) has returned chunksCreated = N,
\* listDocuments(tenant) contains the returned document id with
\* chunk_count = N, and the chunk collection holds exactly N chunks with that
\* document id, all of them of the tenant.
C21_IngestVisibleInListing ==
    (op.kind = "ingest" /\ op.pc = "returned") =>
        /\ [document_id |-> op.documentId, chunk_count |-> op.n]
               \in listDocuments(op.restaurant)
        /\ Cardinality(ChunksOf(op.documentId)) = op.n
        /\ \A c \in ChunksOf(op.documentId) : c.restaurant = op.restaurant

\* an ingest of two or more chunks under B has returned while tenant A has a
\* document with chunks in the store
C21_Witness ==
    /\ op.kind = "ingest" /\ op.pc = "returned" /\ op.restaurant = "B"
    /\ op.n >= 2
    /\ \E x \in docsColl : x.restaurant = "A" /\ ChunksOf(x.document_id) # {}

\* the document ids present in either collection
DocumentIds == {c.document_id : c \in chunksColl} \cup {x.document_id : x \in docsColl}

\* C22: for every document id present in the store, the chunk_index values
\* of its chunk records are exactly 0..N-1, each once, where N is the
\* chunk_count of its Document record.
C22_ChunkIndexesAreZeroToCount ==
    \A d \in DocumentIds :
        \E x \in docsColl :
            /\ x.document_id = d
            /\ {c.chunk_index : c \in ChunksOf(d)} = 0..(x.chunk_count - 1)
            /\ Cardinality(ChunksOf(d)) = x.chunk_count

\* ------------------------------------------------------------------------
\* CSV type detection: detectCsvType and its use by the auto-detecting upload
\* handler (upload/route.ts lines 201-225, 353-365), for every header row
\* drawn from a set of raw column names.
\* ------------------------------------------------------------------------
\* String.prototype.toLowerCase, for the letters column names are written in
ToLowerCase(s) ==
    LET UpperCase == <<"A", "B", "C", "D", "E", "G", "I", "L", "M", "N", "O", "P",
                       "R", "S", "T">>
        LowerCase == <<"a", "b", "c", "d", "e", "g", "i", "l", "m", "n", "o", "p",
                       "r", "s", "t">>
    IN  [i \in 1..Len(s) |->
            IF \E j \in 1..Len(UpperCase) : UpperCase[j] = s[i]
            THEN LowerCase[CHOOSE j \in 1..Len(UpperCase) : UpperCase[j] = s[i]]
            ELSE s[i]]

RECURSIVE ReplaceWsRuns(_, _)
\* replace(/\s+/g, "_")
ReplaceWsRuns(s, i) ==
    IF i > Len(s) THEN <<>>
    ELSE IF s[i] \in Ws THEN <<"_">> \o ReplaceWsRuns(s, WsRunEnd(s, i))
    ELSE <<s[i]>> \o ReplaceWsRuns(s, i + 1)

\* line 202: col.toLowerCase().trim().replace(/\s+/g, "_")
NormaliseHeader(col) == ReplaceWsRuns(Trim(ToLowerCase(col)), 1)

\* the column names detectCsvType looks for (lines 208-220)
Columns ==
    [receipt_number |->
         <<"r", "e", "c", "e", "i", "p", "t", "_", "n", "u", "m", "b", "e", "r">>,
     payment_type |->
         <<"p", "a", "y", "m", "e", "n", "t", "_", "t", "y", "p", "e">>,
     total_money |->
         <<"t", "o", "t", "a", "l", "_", "m", "o", "n", "e", "y">>,
     gross_sales |->
         <<"g", "r", "o", "s", "s", "_", "s", "a", "l", "e", "s">>,
     net_sales |->
         <<"n", "e", "t", "_", "s", "a", "l", "e", "s">>,
     items_sold |->
         <<"i", "t", "e", "m", "s", "_", "s", "o", "l", "d">>,
     in_stock |->
         <<"i", "n", "_", "s", "t", "o", "c", "k">>,
     low_stock_level |->
         <<"l", "o", "w", "_", "s", "t", "o", "c", "k", "_", "l", "e", "v", "e", "l">>,
     stock |->
         <<"s", "t", "o", "c", "k">>,
     price |->
         <<"p", "r", "i", "c", "e">>,
     cost |->
         <<"c", "o", "s", "t">>,
     category |->
         <<"c", "a", "t", "e", "g", "o", "r", "y">>]

\* the column names uploaded files carry, as written in the file
RawHeaders ==
    {<<"R", "e", "c", "e", "i", "p", "t", " ", "N", "u", "m", "b", "e", "r">>,
     <<"p", "a", "y", "m", "e", "n", "t", "_", "t", "y", "p", "e">>,
     <<"T", "o", "t", "a", "l", " ", "M", "o", "n", "e", "y">>,
     <<"G", "R", "O", "S", "S", "_", "S", "A", "L", "E", "S">>,
     <<"N", "e", "t", " ", " ", "S", "a", "l", "e", "s">>,
     <<"i", "t", "e", "m", "s", "_", "s", "o", "l", "d">>,
     <<"I", "n", " ", "S", "t", "o", "c", "k">>,
     <<"L", "o", "w", " ", "s", "t", "o", "c", "k", " ", "l", "e", "v", "e", "l">>,
     <<" ", "s", "t", "o", "c", "k", " ">>,
     <<"P", "r", "i", "c", "e">>,
     <<"c", "o", "s", "t">>,
     <<"C", "a", "t", "e", "g", "o", "r", "y">>,
     <<"N", "a", "m", "e">>}

\* lines 201-225; null is Absent
detectCsvType(headers) ==
    LET h == {NormaliseHeader(col) : col \in headers} IN
    IF \/ Columns.receipt_number \in h
       \/ Columns.payment_type \in h
       \/ Columns.total_money \in h
       \/ Columns.gross_sales \in h
       \/ Columns.net_sales \in h
       \/ Columns.items_sold \in h
    THEN "sales"
    ELSE IF \/ Columns.in_stock \in h
            \/ Columns.low_stock_level \in h
            \/ (Columns.stock \in h /\ Columns.price \notin h)
    THEN "inventory"
    ELSE IF Columns.price \in h /\ (Columns.cost \in h \/ Columns.category \in h)
    THEN "products"
    ELSE Absent

\* lines 353-365: the handler detects the type and answers 400 on null
DetectCsvType ==
    /\ detect.pc = "parsed"
    /\ LET csvType == detectCsvType(detect.headers) IN
         detect' = [detect EXCEPT !.csvType = csvType,
                                  !.pc = IF csvType = Absent THEN "rejected"
                                                             ELSE "detected"]
    /\ UNCHANGED nonDetectVars

\* the upload goes on (line 367) or the 400 response was sent
DetectDone ==
    /\ detect.pc \in {"detected", "rejected"}
    /\ detect' = [detect EXCEPT !.pc = "done"]
    /\ UNCHANGED nonDetectVars

NextDetect ==
    \/ DetectCsvType
    \/ DetectDone

DetectInit ==
    \E headers \in SUBSET RawHeaders :
        detect = [NoDetect EXCEPT !.pc = "parsed", !.headers = headers]

InitDetect == ChunkIdle /\ StoreIdle /\ ConnIdle /\ CsvIdle /\ EmbedIdle /\ FuseIdle
              /\ DetectInit /\ PagerIdle

SpecDetect == InitDetect /\ [][NextDetect]_vars

SalesColumns ==
    {Columns.receipt_number, Columns.payment_type, Columns.total_money,
     Columns.gross_sales, Columns.net_sales, Columns.items_sold}
StockColumns == {Columns.in_stock, Columns.low_stock_level, Columns.stock}

\* the category the stated rules give a normalised header set
RuleCsvType(h) ==
    IF h \cap SalesColumns # {} THEN "sales"
    ELSE IF h \cap StockColumns # {} /\ Columns.price \notin h THEN "inventory"
    ELSE IF Columns.price \in h /\ (Columns.cost \in h \/ Columns.category \in h)
    THEN "products"
    ELSE Absent

\* C23: detectCsvType classifies a header row by these rules: any receipt,
\* payment or sales-summary column gives 'sales'; otherwise stock-level
\* columns with no price column give 'inventory'; otherwise price together
\* with cost or category gives 'products'; otherwise null, and the upload is
\* rejected.  In particular a header row with a stock-level column and a
\* price column is not classified 'inventory'.
C23_DetectFollowsRules ==
    detect.pc \in {"detected", "rejected"} =>
        LET h == {NormaliseHeader(col) : col \in detect.headers} IN
        /\ detect.csvType = RuleCsvType(h)
        /\ detect.pc = "rejected" <=> RuleCsvType(h) = Absent
        /\ (h \cap StockColumns # {} /\ Columns.price \in h) => detect.csvType # "inventory"

\* ------------------------------------------------------------------------
\* CSV uploads: rejection, failure and concurrent re-upload.
\* ------------------------------------------------------------------------
\* C24: a malformed upload (no file, oversize, unknown tenant, invalid or
\* undetectable type, or no data rows) is rejected before any store I/O: the
\* step that rejects a request is the first step of that request and it
\* issues no store command and leaves the collection as it was.
C24_RejectedBeforeStoreIO ==
    [][\A u \in Uploads :
          (uploads[u].pc # "rejected" /\ uploads'[u].pc = "rejected")
              => /\ uploads[u].pc = "idle"
                 /\ csvColl' = csvColl
                 /\ lastCmd' = lastCmd]_vars

\* C27: when an upload has failed after its validation passed (the embedding
\* or the insert failed), the chunks stored before for its filename are
\* still there: the failed upload has deleted none.
C27_FailedUploadKeepsPrevious ==
    \A u \in Uploads : uploads[u].pc = "failed" => uploads[u].deletedCount = 0

\* the chunks stored under a filename
RowsOf(f) == {c \in csvColl : c.filename = f}

\* C28: when two or more uploads of one filename have all completed
\* successfully, whatever their interleaving, the collection holds for that
\* filename the rows of exactly one upload: every row_index at most once and
\* one uploaded_at for all its chunks.
C28_OneUploadPerFilename ==
    \A f \in Filenames :
        (\A u \in Uploads : uploads[u].pc = "done" /\ uploads[u].filename = f)
            => /\ \A c, d \in RowsOf(f) : c.row_index = d.row_index => c = d
               /\ \A c, d \in RowsOf(f) : c.uploaded_at = d.uploaded_at

\* ------------------------------------------------------------------------
\* Overlap between consecutive chunks.
\* ------------------------------------------------------------------------
\* the last n characters of s (all of s when it is shorter)
LastChars(s, n) == IF n <= 0 THEN <<>> ELSE Slice(s, -n, Len(s))

StartsWith(s, prefix) ==
    Len(prefix) <= Len(s) /\ SubSeq(s, 1, Len(prefix)) = prefix

\* C25: when chunkText emits a chunk at a paragraph boundary and a further
\* chunk follows, the content of the following chunk begins with the last
\* `overlap` characters of the emitted chunk.
C25_OverlapCarriedAtParagraph ==
    \A i \in 1..(Len(chunks) - 1) :
        chunks[i].pushedAt = "paragraph"
            => StartsWith(chunks[i + 1].content, LastChars(chunks[i].content, overlap))

\* ------------------------------------------------------------------------
\* getClient: what a caller is handed.
\* ------------------------------------------------------------------------
\* C26: getClient never hands a caller a MongoClient whose connect() has not
\* completed successfully: a caller that arrives while the first attempt is
\* in progress waits for it, and after a failed attempt no later caller
\* receives the failed client.
C26_HandedClientIsConnected ==
    \A p \in Callers :
        (callers[p].pc = "done" /\ callers[p].api = "rag")
            => mongoClients[callers[p].got].state = "connected"

\* ------------------------------------------------------------------------
\* The two rank fusions side by side: the CSV reciprocalRankFusion
\* (rag.ts lines 161-191) and the rich-document one (lines 546-601, through
\* the ranking of lines 679-689) are applied to the same two result lists.
\* A stored item is named by its _id for the rich fusion and by its file and
\* its position in the file (document_id, chunk_index) for the CSV one.
\* ------------------------------------------------------------------------
\* lines 170, 177: `${filename}:${row_index}`
CsvKey(result) == <<result.document_id, result.chunk_index>>

CsvRrfScoreUnshifted(rank) == Frac(1, RRF_K + rank)

\* lines 171, 178: 1 / (k + rank + 1), rank the 0-based position
CsvRrfScore(rank) == Frac(1, RRF_K + rank + 1)

\* lines 169-173: scoreMap.set(key, ...) replaces the value of a key that is
\* already there and keeps the key's place in the map
CsvSetVector(scoreMap, result, rank) ==
    LET entry == [key |-> CsvKey(result), result |-> result,
                  score |-> CsvRrfScore(rank)]
        at == {i \in 1..Len(scoreMap) : scoreMap[i].key = entry.key}
    IN  IF at # {}
        THEN [i \in 1..Len(scoreMap) |-> IF i \in at THEN entry ELSE scoreMap[i]]
        ELSE Append(scoreMap, entry)

\* lines 176-185
CsvAddText(scoreMap, result, rank) ==
    LET key == CsvKey(result)
        rrfScore == CsvRrfScore(rank)
        at == {i \in 1..Len(scoreMap) : scoreMap[i].key = key}
    IN  IF at # {}
        THEN [i \in 1..Len(scoreMap) |->
                 IF i \in at THEN [scoreMap[i] EXCEPT !.score = FracAdd(@, rrfScore)]
                 ELSE scoreMap[i]]
        ELSE Append(scoreMap, [key |-> key, result |-> result, score |-> rrfScore])

RECURSIVE CsvForEach(_, _, _, _)
\* results.forEach((result, rank) => ...), i the 1-based position
CsvForEach(scoreMap, results, i, list) ==
    IF i > Len(results) THEN scoreMap
    ELSE CsvForEach(IF list = "vector"
                    THEN CsvSetVector(scoreMap, results[i], i - 1)
                    ELSE CsvAddText(scoreMap, results[i], i - 1),
                    results, i + 1, list)

\* lines 161-191
csvReciprocalRankFusion(vectorResults, textResults) ==
    LET afterVector == CsvForEach(<<>>, vectorResults, 1, "vector")
        scoreMap == CsvForEach(afterVector, textResults, 1, "text")
        sorted == SortByScore(<<>>, scoreMap, 1)
    IN  [i \in 1..Len(sorted) |->
            [result |-> sorted[i].result, score |-> sorted[i].score]]

\* every pair of result lists in which no item is repeated
RrfInit ==
    \E v \in ResultLists, t \in ResultLists :
        fuse = [NoFuse EXCEPT !.pc = "resolved", !.limit = MaxFuseLimit,
                              !.vectorResults = v, !.textResults = t]

\* line 52: the CSV fusion of the same two lists
CsvFuse ==
    /\ fuse.pc = "fused"
    /\ fuse' = [fuse EXCEPT !.pc = "both",
                            !.csvFused = csvReciprocalRankFusion(fuse.vectorResults,
                                                                 fuse.textResults)]
    /\ UNCHANGED nonFuseVars

NextRrf ==
    \/ FuseRank
    \/ FuseApply
    \/ CsvFuse

InitRrf == ChunkIdle /\ StoreIdle /\ ConnIdle /\ CsvIdle /\ EmbedIdle /\ RrfInit
           /\ DetectIdle /\ PagerIdle

SpecRrf == InitRrf /\ [][NextRrf]_vars

\* each item occurs at most once in the list
KeysOnce(list) == \A i, j \in 1..Len(list) : list[i] = list[j] => i = j

\* C29: given the same two ranked lists in which each key occurs at most
\* once per list, the two reciprocalRankFusion implementations give the same
\* output order and the same fused score to every item.
C29_FusionsAgree ==
    (fuse.pc = "both" /\ KeysOnce(fuse.vectorResults) /\ KeysOnce(fuse.textResults))
        => /\ Len(fuse.csvFused) = Len(fuse.fused)
           /\ \A i \in 1..Len(fuse.fused) :
                  /\ fuse.csvFused[i].result = fuse.fused[i].doc
                  /\ FracEq(fuse.csvFused[i].score, fuse.fused[i].score)

\* both fusions ran on lists that share an item at different positions and
\* each have an item of their own
C29_Witness ==
    /\ fuse.pc = "both"
    /\ KeysOnce(fuse.vectorResults) /\ KeysOnce(fuse.textResults)
    /\ Len(fuse.vectorResults) >= 2 /\ Len(fuse.textResults) >= 2
    /\ fuse.vectorResults[1] = fuse.textResults[2]
    /\ fuse.vectorResults[2] \notin Range(fuse.textResults)
    /\ fuse.textResults[1] \notin Range(fuse.vectorResults)
    /\ Len(fuse.fused) = 3

\* ------------------------------------------------------------------------
\* loyverseGetAll (rag.ts lines 934-987): one call, from one await of fetch
\* to the next.  pager.requests counts the requests issued, pager.fetched
\* lists the pages received, in fetch order.
\* ------------------------------------------------------------------------
Items == {"a", "b"}

\* the data arrays a provider page may carry
PageData == UNION {[1..n -> Items] : n \in 0..MaxPageLen}

\* json.cursor: a cursor string, or Absent when the page has none
Cursors == {"c", Absent}

PagerResultAll(allData, maxItems) == allData

\* line 986: allData.slice(0, maxItems)
PagerResult(allData, maxItems) == Slice(allData, 0, maxItems)

\* line 945 and the request of lines 946-964, or the return of line 986
LoopTest(p) ==
    IF Len(p.allData) < p.maxItems
    THEN [p EXCEPT !.pc = "await", !.requests = @ + 1]
    ELSE [p EXCEPT !.pc = "returned", !.result = PagerResult(p.allData, p.maxItems)]

\* lines 934-945: the call
LoyverseGetAllBegin(maxItems) ==
    /\ pager.pc = "idle"
    /\ pager' = LoopTest([NoPager EXCEPT !.maxItems = maxItems])
    /\ UNCHANGED nonPagerVars

\* lines 971-986: a page arrived
PageResponse(data, cursor) ==
    /\ pager.pc = "await"
    /\ LET got == [pager EXCEPT !.fetched = Append(@, [data |-> data,
                                                       cursor |-> cursor])]
           pushed == [got EXCEPT !.allData = @ \o data, !.cursor = cursor]
       IN  pager' =
             IF Len(data) = 0
             THEN [got EXCEPT !.pc = "returned",
                              !.result = PagerResult(got.allData, got.maxItems)]
             ELSE IF cursor = Absent
             THEN [pushed EXCEPT !.pc = "returned",
                                 !.result = PagerResult(pushed.allData,
                                                        pushed.maxItems)]
             ELSE LoopTest(pushed)
    /\ UNCHANGED nonPagerVars

\* lines 966-969: the provider answered with an error status, the call throws
PageError ==
    /\ pager.pc = "await"
    /\ pager' = [pager EXCEPT !.pc = "failed"]
    /\ UNCHANGED nonPagerVars

\* the caller has the outcome
PagerDone ==
    /\ pager.pc \in {"returned", "failed"}
    /\ pager' = NoPager
    /\ UNCHANGED nonPagerVars

NextPages ==
    \/ \E maxItems \in 0..MaxItems : LoyverseGetAllBegin(maxItems)
    \/ \E data \in PageData, cursor \in Cursors : PageResponse(data, cursor)
    \/ PageError
    \/ PagerDone

InitPages == ChunkIdle /\ StoreIdle /\ ConnIdle /\ CsvIdle /\ EmbedIdle /\ FuseIdle
             /\ DetectIdle /\ PagerIdle

SpecPages == InitPages /\ [][NextPages]_vars

\* every request is answered: fetch resolves with a page or an error status
PageArrives ==
    \/ \E data \in PageData, cursor \in Cursors : PageResponse(data, cursor)
    \/ PageError

SpecPagesLive == SpecPages /\ WF_vars(PageArrives)

RECURSIVE Concat(_, _)
\* the data of pages i.. of a page list, concatenated
Concat(pages, i) ==
    IF i > Len(pages) THEN <<>> ELSE pages[i].data \o Concat(pages, i + 1)

\* at most maxItems items are returned, a prefix of the fetched pages
PagerReturnsPrefix ==
    pager.pc = "returned" =>
        /\ Len(pager.result) <= pager.maxItems
        /\ Len(pager.result) = Min(pager.maxItems, Len(Concat(pager.fetched, 1)))
        /\ StartsWith(Concat(pager.fetched, 1), pager.result)

\* a request is issued only with fewer than maxItems items collected and,
\* when a page has been fetched, only after a non-empty page with a cursor
PagerRequestAllowed ==
    pager'.requests = pager.requests + 1 =>
        /\ Len(pager'.allData) < pager'.maxItems
        /\ pager'.fetched # <<>> =>
               LET last == pager'.fetched[Len(pager'.fetched)]
               IN  last.data # <<>> /\ last.cursor # Absent
        /\ pager'.requests = Len(pager'.fetched) + 1

\* C30: for any sequence of provider pages loyverseGetAll terminates and
\* returns at most maxItems items, a prefix of the concatenation of the
\* fetched pages in fetch order; it issues no further request after a page
\* that is empty or has no cursor, nor once maxItems items are collected.
C30_PagingTerminatesWithPrefix ==
    /\ []PagerReturnsPrefix
    /\ [][PagerRequestAllowed]_vars
    /\ (pager.pc = "await") ~> (pager.pc \in {"returned", "failed"})

\* a call returned after two pages that together hold more than maxItems
\* items: the second page was cut
C30_Witness ==
    /\ pager.pc = "returned"
    /\ Len(pager.fetched) = 2
    /\ Len(pager.allData) > pager.maxItems
    /\ Len(pager.result) = pager.maxItems
    /\ pager.fetched[1].data # pager.fetched[2].data

====
